---- MODULE Spec2Model ----
(***************************************************************************)
(* Vault engine of vault-crm (src-tauri): key management, cipher, the      *)
(* startup / setup state machine, flush and the backup manager.            *)
(*                                                                         *)
(* Files and the keychain entry are byte sequences.  Option<T> is a        *)
(* sequence of length 0 (None) or 1 (Some(x)); Result<T, E> is a record    *)
(* with an ok flag.                                                        *)
(***************************************************************************)
EXTENDS Integers, Sequences, FiniteSets, TLC

\* ------------------------------------------------------------------ bounds
\* ids of the keys OsRng can produce
MaxRandKey == 1
\* ids of the nonces OsRng can produce
MaxNonce == 1
\* longest working copy (bytes) the store writes
MaxDbLen == 2
\* last second of the wall clock in a session with faults
MaxClock == 1
\* number of backup rounds in a session with faults
MaxFaultRounds == 2
\* number of backup rounds in a retention run
MaxRounds == 10
\* number of directory entries drawn for a prune run
MaxDirFiles == 3
\* longest plaintext (bytes) handed to the cipher on its own
MaxMsgLen == 2

\* ------------------------------------------------------- program constants
KEY_LEN == 32
NONCE_LEN == 12
TAG_LEN == 16
BACKUP_KEEP_COUNT == 7
UNIX_EPOCH == 0

\* --------------------------------------------------------- Option / Result
None == << >>
Some(x) == << x >>
IsSome(o) == Len(o) = 1
Unwrap(o) == o[1]

Ok(v) == [ok |-> TRUE, val |-> v, err |-> ""]
Err(e) == [ok |-> FALSE, val |-> None, err |-> e]

\* ------------------------------------------------------------ byte helpers
Prefix(s, n) == SubSeq(s, 1, n)
Suffix(s, n) == SubSeq(s, n + 1, Len(s))
Fill(n, b) == [i \in 1..n |-> b]

RECURSIVE SumSeq(_)
SumSeq(s) == IF s = << >> THEN 0 ELSE Head(s) + SumSeq(Tail(s))

RECURSIVE WSumSeq(_)
WSumSeq(s) == IF s = << >> THEN 0 ELSE Len(s) * Head(s) + WSumSeq(Tail(s))

\* -------------------------------------------------------------- base64
\* general_purpose::STANDARD over sextet values 0..63; 64 stands for '='.
\* (The rest of the input is bound to a value before the recursive call,
\* which keeps the evaluation linear in the length.)
B64PAD == 64

RECURSIVE B64Encode(_)
B64Encode(bs) ==
    IF bs = << >> THEN << >>
    ELSE IF Len(bs) = 1 THEN
        << bs[1] \div 4, (bs[1] % 4) * 16, B64PAD, B64PAD >>
    ELSE IF Len(bs) = 2 THEN
        << bs[1] \div 4, (bs[1] % 4) * 16 + bs[2] \div 16, (bs[2] % 16) * 4, B64PAD >>
    ELSE
        << bs[1] \div 4, (bs[1] % 4) * 16 + bs[2] \div 16,
           (bs[2] % 16) * 4 + bs[3] \div 64, bs[3] % 64 >>
        \o (CHOOSE out \in {B64Encode(rest) : rest \in {Suffix(bs, 3)}} : TRUE)

RECURSIVE B64Decode(_)
B64Decode(s) ==
    IF s = << >> THEN Ok(<< >>)
    ELSE IF Len(s) < 4 THEN Err("Invalid input length")
    ELSE IF s[1] >= B64PAD \/ s[2] >= B64PAD THEN Err("Invalid byte")
    ELSE IF s[3] = B64PAD THEN
        IF Len(s) # 4 \/ s[4] # B64PAD THEN Err("Invalid padding")
        ELSE IF s[2] % 16 # 0 THEN Err("Invalid last symbol")
        ELSE Ok(<< s[1] * 4 + s[2] \div 16 >>)
    ELSE IF s[3] > B64PAD THEN Err("Invalid byte")
    ELSE IF s[4] = B64PAD THEN
        IF Len(s) # 4 THEN Err("Invalid padding")
        ELSE IF s[3] % 4 # 0 THEN Err("Invalid last symbol")
        ELSE Ok(<< s[1] * 4 + s[2] \div 16, (s[2] % 16) * 16 + s[3] \div 4 >>)
    ELSE IF s[4] > B64PAD THEN Err("Invalid byte")
    ELSE
        CHOOSE res \in
            {IF ~rest.ok THEN rest
             ELSE Ok(<< s[1] * 4 + s[2] \div 16, (s[2] % 16) * 16 + s[3] \div 4,
                        (s[3] % 4) * 64 + s[4] >> \o rest.val) :
                 rest \in {B64Decode(tail) : tail \in {Suffix(s, 4)}}} : TRUE

\* ------------------------------------------------------------------ cipher
\* AES-256-GCM as a keyed stream with an authentication tag: the keystream
\* byte and the tag depend on the key and the nonce, the tag also on every
\* ciphertext byte and its position.
KeyStream(key, nonce, i) == (7 * key[1] + 3 * nonce[1] + i) % 256

AeadTag(key, nonce, ct) ==
    << key[1] % 256, key[KEY_LEN] % 256, nonce[1] % 256, Len(ct) % 256,
       SumSeq(ct) % 256, WSumSeq(ct) % 256 >>
    \o Fill(TAG_LEN - 6, (key[1] + nonce[1]) % 256)

AeadEncrypt(key, nonce, pt) ==
    LET ct == [i \in 1..Len(pt) |-> (pt[i] + KeyStream(key, nonce, i)) % 256]
    IN ct \o AeadTag(key, nonce, ct)

AeadDecrypt(key, nonce, body) ==
    IF Len(body) < TAG_LEN THEN Err("aead::Error")
    ELSE
        LET ct == Prefix(body, Len(body) - TAG_LEN)
            tag == Suffix(body, Len(body) - TAG_LEN)
        IN IF tag # AeadTag(key, nonce, ct) THEN Err("aead::Error")
           ELSE Ok([i \in 1..Len(ct) |-> (ct[i] + 256 - KeyStream(key, nonce, i)) % 256])

\* a variant that returns the ciphertext without the nonce in front
encrypt_file_nonce_dropped(key, nonce_bytes, plaintext) ==
    AeadEncrypt(key, nonce_bytes, plaintext)

encrypt_file(key, nonce_bytes, plaintext) ==
    nonce_bytes \o AeadEncrypt(key, nonce_bytes, plaintext)

\* what the process does on an index out of range
Panic == Err("panicked: range end index 12 out of range for slice")

\* a variant that slices the nonce off without looking at the length
decrypt_file_unchecked(key, ciphertext) ==
    IF Len(ciphertext) < NONCE_LEN THEN Panic
    ELSE AeadDecrypt(key, Prefix(ciphertext, NONCE_LEN), Suffix(ciphertext, NONCE_LEN))

decrypt_file(key, ciphertext) ==
    IF Len(ciphertext) < NONCE_LEN THEN Err("Encrypted payload too short")
    ELSE AeadDecrypt(key, Prefix(ciphertext, NONCE_LEN), Suffix(ciphertext, NONCE_LEN))

\* --------------------------------------------------------- input universes
KeyOf(id) == Fill(KEY_LEN, id)
RandKeys == {KeyOf(id) : id \in 1..MaxRandKey}
Nonces == {Fill(NONCE_LEN, n) : n \in 1..MaxNonce}

\* passphrases as character codes: 32 is a blank
Passphrases == {Some(<< >>), Some(<< 32 >>), Some(<< 97 >>)}

\* the Option<String> argument of a setup action with the key OsRng draws
\* when it is None
KeyInputs ==
    {[passphrase |-> None, randkey |-> k] : k \in RandKeys}
    \cup {[passphrase |-> p, randkey |-> KeyOf(1)] : p \in Passphrases}

\* Argon2id with the fixed salt: a deterministic 32-byte digest
derive_key(passphrase) == Ok(KeyOf(3 + ((SumSeq(passphrase) + Len(passphrase)) % 7)))

\* working copies: a header byte then the rows the store has written
SchemaBytes == << 1 >>
DataBytes == {2}
IsDb(bytes) == Len(bytes) >= 1 /\ bytes[1] = 1

\* an injected fault: the step of the operation that fails and, for a file
\* write, the number of bytes that reached the disk.  A process that dies at
\* a step leaves the disk a failure at that step leaves, so a crash is the
\* failure followed by kill.
NoFault == [step |-> "none", cut |-> 0]
Cuts == {0, NONCE_LEN + 1}
FaultsAt(steps, writes) ==
    {NoFault}
    \cup {[step |-> s, cut |-> 0] : s \in steps}
    \cup {[step |-> s, cut |-> n] : s \in writes, n \in Cuts}

\* ------------------------------------------------------------------- state
VARIABLES
    phase,      \* "off": no process; "running": the tauri app is up
    keychain,   \* Option: the password of entry (VaultCRM, db_master_key)
    f_plain,    \* Option: bytes of vault.db
    f_enc,      \* Option: bytes of vault.db.encrypted
    f_tmp,      \* Option: bytes of vault.db.tmp
    f_bak,      \* Option: bytes of vault.db.plain.backup
    db,         \* DbState: Option<Connection>
    paths,      \* EncryptedPathsState: Option<(temp, encrypted)>
    setup,      \* EncryptionSetupState: Option<SetupReason>
    clock,      \* Utc::now() in seconds
    backups,    \* app_data/backups: file name -> [bytes, mtime, readable]
    extra_dir,  \* the folder of setting backup_dir: same shape
    sync_dir,   \* the folder of setting sync_folder: same shape
    settings,   \* app_settings rows backup_dir and sync_folder
    rounds,     \* the backup rounds so far: how many, when, any fault
    last,       \* the last operation, its inputs and its result
    tasks,      \* per thread: the handler it is running and where it stands
    locks       \* the holder of each state Mutex: a thread or "free"

vars == << phase, keychain, f_plain, f_enc, f_tmp, f_bak, db, paths, setup,
           clock, backups, extra_dir, sync_dir, settings, rounds, last,
           tasks, locks >>

diskVars == << keychain, f_plain, f_enc, f_tmp, f_bak >>
backupVars == << clock, backups, extra_dir, sync_dir, settings, rounds >>
threadVars == << tasks, locks >>

\* the threads handlers run on: the main thread, which runs the event loop,
\* and the runtime's pool for commands declared async
Threads == {"main", "pool"}
Mutexes == {"db", "paths", "setup"}

\* a thread's task: the handler, its position, and the argument of a setup
\* command
NoInput == [passphrase |-> None, randkey |-> KeyOf(1)]
Idle == [op |-> "idle", pc |-> "idle", in |-> NoInput]
NoTasks == [t \in Threads |-> Idle]
NoLocks == [m \in Mutexes |-> "free"]

\* the keychain and the files of the data directory as one value
Disk == [keychain |-> keychain, plain |-> f_plain, enc |-> f_enc,
         tmp |-> f_tmp, bak |-> f_bak]

\* std::fs::write: create-or-truncate, then write_all; a fault leaves the
\* bytes written so far
fs_write(old, new, f) ==
    Some(Prefix(new, IF f.cut < Len(new) THEN f.cut ELSE Len(new) - 1))

\* outcome of an operation: its result, the disk it leaves, and whether the
\* injected fault was reached
Out(res, d, hit) == [res |-> res, d |-> d, hit |-> hit]

\* ------------------------------------------------------------- key manager
get_db_key(d, f) ==
    IF f.step = "keyring_entry" THEN Out(Err("keyring"), d, TRUE)
    ELSE IF f.step = "get_password" \/ d.keychain = None THEN
        Out(Ok(None), d, f.step = "get_password")
    ELSE
        LET bytes == B64Decode(Unwrap(d.keychain)) IN
        IF ~bytes.ok THEN Out(Err(bytes.err), d, FALSE)
        ELSE IF Len(bytes.val) # KEY_LEN THEN Out(Ok(None), d, FALSE)
        ELSE Out(Ok(Some(bytes.val)), d, FALSE)

\* a variant that stores the key bytes as they are, not their base64 text
set_db_key_raw(d, key, f) ==
    IF f.step = "set_password" THEN Out(Err("keyring"), d, TRUE)
    ELSE Out(Ok(None), [d EXCEPT !.keychain = Some(key)], FALSE)

set_db_key(d, key, f) ==
    IF f.step = "set_password" THEN Out(Err("keyring"), d, TRUE)
    ELSE Out(Ok(None), [d EXCEPT !.keychain = Some(B64Encode(key))], FALSE)

\* Connection::open + init_schema + init_settings on the working copy: an
\* absent or empty file becomes a fresh database, a database keeps its rows
open_and_init(tmp) ==
    IF tmp = None \/ tmp = Some(<< >>) THEN Ok(Some(SchemaBytes))
    ELSE IF IsDb(Unwrap(tmp)) THEN Ok(tmp)
    ELSE Err("file is not a database")

PathPair == << "vault.db.tmp", "vault.db.encrypted" >>

\* ------------------------------------------------------ lifecycle: init_db
\* a variant that looks for the artifact before the legacy file
no_key_outcome_artifact_first(d) ==
    IF d.enc # None THEN Err("Encrypted DB exists but no key in keychain")
    ELSE IF d.plain # None THEN Err("NeedSetup(MigratePlain)")
    ELSE Err("NeedSetup(FirstRun)")

\* a variant that opens a vault when there is no key and no file
no_key_outcome_opens(d) ==
    IF d.plain # None THEN Err("NeedSetup(MigratePlain)")
    ELSE IF d.enc # None THEN Err("Encrypted DB exists but no key in keychain")
    ELSE Ok(Some(PathPair))

\* the tail of init_db, reached when get_db_key returned None
no_key_outcome(d) ==
    IF d.plain # None THEN Err("NeedSetup(MigratePlain)")
    ELSE IF d.enc # None THEN Err("Encrypted DB exists but no key in keychain")
    ELSE Err("NeedSetup(FirstRun)")

InitDbSteps == {"mkdir", "keyring_entry", "get_password", "read_enc", "open", "schema", "read_tmp"}
InitDbWrites == {"write_tmp", "write_enc"}

init_db(d, nonce, f) ==
    IF f.step = "mkdir" THEN Out(Err("io"), d, TRUE)
    ELSE LET k == get_db_key(d, f) IN
    IF ~k.res.ok THEN Out(Err(k.res.err), d, k.hit)
    ELSE IF k.res.val # None THEN
        LET key == Unwrap(k.res.val) IN
        IF d.enc # None THEN
            IF f.step = "read_enc" THEN Out(Err("io"), d, TRUE)
            ELSE LET plaintext == decrypt_file(key, Unwrap(d.enc)) IN
            IF ~plaintext.ok THEN Out(Err(plaintext.err), d, FALSE)
            ELSE IF f.step = "write_tmp" THEN
                Out(Err("io"), [d EXCEPT !.tmp = fs_write(d.tmp, plaintext.val, f)], TRUE)
            ELSE IF f.step = "open" THEN
                Out(Err("sqlite"), [d EXCEPT !.tmp = Some(plaintext.val)], TRUE)
            ELSE Out(Ok(Some(PathPair)), [d EXCEPT !.tmp = Some(plaintext.val)], FALSE)
        ELSE
            IF f.step = "open" THEN Out(Err("sqlite"), d, TRUE)
            ELSE IF f.step = "schema" THEN
                Out(Err("sqlite"), [d EXCEPT !.tmp = IF d.tmp = None THEN Some(<< >>) ELSE d.tmp], TRUE)
            ELSE LET conn == open_and_init(d.tmp) IN
            IF ~conn.ok THEN Out(Err(conn.err), d, FALSE)
            ELSE LET d1 == [d EXCEPT !.tmp = conn.val] IN
            IF f.step = "read_tmp" THEN Out(Err("io"), d1, TRUE)
            ELSE LET ciphertext == encrypt_file(key, nonce, Unwrap(d1.tmp)) IN
            IF f.step = "write_enc" THEN
                Out(Err("io"), [d1 EXCEPT !.enc = fs_write(d1.enc, ciphertext, f)], TRUE)
            ELSE Out(Ok(Some(PathPair)), [d1 EXCEPT !.enc = Some(ciphertext)], FALSE)
    ELSE Out(no_key_outcome(d), d, k.hit)

IsNeedSetup(res) == ~res.ok /\ res.err \in {"NeedSetup(FirstRun)", "NeedSetup(MigratePlain)"}
ReasonOf(res) == IF res.err = "NeedSetup(FirstRun)" THEN "FirstRun" ELSE "MigratePlain"

\* the part of an outcome every action applies: the disk it leaves
ApplyDisk(o) ==
    /\ keychain' = o.d.keychain
    /\ f_plain' = o.d.plain
    /\ f_enc' = o.d.enc
    /\ f_tmp' = o.d.tmp
    /\ f_bak' = o.d.bak

\* the injected fault must be one the operation runs into
Reached(o, f) == o.hit = (f.step # "none")

\* the record of the last operation: its name, whether it returned Ok, the
\* error text or the outcome it reported, the fault it ran into, a number
\* it was given or found, and the byte-string argument it was called with
Last(op, ok, msg, f) ==
    [op |-> op, ok |-> ok, msg |-> msg, fault |-> f.step, arg |-> 0, input |-> None]
ResMsg(res) == IF res.ok THEN "ok" ELSE res.err

\* lib.rs run(): the setup closure
run ==
    /\ phase = "off"
    /\ \E nonce \in Nonces, f \in FaultsAt(InitDbSteps, InitDbWrites) :
        \E o \in {init_db(Disk, nonce, f)} :
        /\ Reached(o, f)
        /\ ApplyDisk(o)
        /\ IF o.res.ok THEN
               /\ phase' = "running" /\ db' = Some("conn") /\ paths' = o.res.val /\ setup' = None
               /\ last' = Last("run", TRUE, "Ready", f)
           ELSE IF IsNeedSetup(o.res) THEN
               /\ phase' = "running" /\ db' = None /\ paths' = None
               /\ setup' = Some(ReasonOf(o.res))
               /\ last' = Last("run", TRUE, o.res.err, f)
           ELSE
               /\ phase' = "off" /\ db' = None /\ paths' = None /\ setup' = None
               /\ last' = Last("run", FALSE, o.res.err, f)
    /\ UNCHANGED << backupVars, threadVars >>

\* ------------------------------------------------------------------- flush
\* a variant that reads only the header page of the working copy
read_working_copy_header(d) == Prefix(Unwrap(d.tmp), 1)

\* std::fs::read(temp_path) in flush_encrypted_db
read_working_copy(d) == Unwrap(d.tmp)

FlushSteps == {"checkpoint", "keyring_entry", "get_password", "read_tmp", "encrypt"}
FlushWrites == {"write_enc"}

flush_encrypted_db(d, nonce, f) ==
    IF f.step = "checkpoint" THEN Out(Err("sqlite"), d, TRUE)
    ELSE LET k == get_db_key(d, f) IN
    IF ~k.res.ok THEN Out(Err(k.res.err), d, k.hit)
    ELSE IF k.res.val = None THEN Out(Err("No key in keychain"), d, k.hit)
    ELSE IF f.step = "read_tmp" THEN Out(Err("io"), d, TRUE)
    ELSE IF d.tmp = None THEN Out(Err("io"), d, FALSE)
    ELSE IF f.step = "encrypt" THEN Out(Err("aead::Error"), d, TRUE)
    ELSE LET ciphertext == encrypt_file(Unwrap(k.res.val), nonce, read_working_copy(d)) IN
    IF f.step = "write_enc" THEN
        Out(Err("io"), [d EXCEPT !.enc = fs_write(d.enc, ciphertext, f)], TRUE)
    ELSE Out(Ok(None), [d EXCEPT !.enc = Some(ciphertext)], FALSE)

\* ----------------------------------------------------------- setup actions
SetupSteps == {"mkdir", "set_password", "open", "schema", "read_tmp"}
SetupWrites == {"write_enc"}

\* the key both setup actions obtain: derived from the passphrase or random
obtain_key(passphrase, randkey) ==
    IF passphrase # None THEN
        IF Unwrap(passphrase) = << >> THEN Err("Passphrase bos olamaz")
        ELSE derive_key(Unwrap(passphrase))
    ELSE Ok(randkey)

setup_create_key(d, passphrase, randkey, nonce, f) ==
    IF f.step = "mkdir" THEN Out(Err("io"), d, TRUE)
    ELSE LET key == obtain_key(passphrase, randkey) IN
    IF ~key.ok THEN Out(Err(key.err), d, FALSE)
    ELSE LET s == set_db_key(d, key.val, f) IN
    IF ~s.res.ok THEN Out(Err(s.res.err), d, s.hit)
    ELSE IF f.step = "open" THEN Out(Err("sqlite"), s.d, TRUE)
    ELSE IF f.step = "schema" THEN
        Out(Err("sqlite"), [s.d EXCEPT !.tmp = IF d.tmp = None THEN Some(<< >>) ELSE d.tmp], TRUE)
    ELSE LET conn == open_and_init(d.tmp) IN
    IF ~conn.ok THEN Out(Err(conn.err), s.d, FALSE)
    ELSE LET d1 == [s.d EXCEPT !.tmp = conn.val] IN
    IF f.step = "read_tmp" THEN Out(Err("io"), d1, TRUE)
    ELSE LET ciphertext == encrypt_file(key.val, nonce, Unwrap(d1.tmp)) IN
    IF f.step = "write_enc" THEN
        Out(Err("io"), [d1 EXCEPT !.enc = fs_write(d1.enc, ciphertext, f)], TRUE)
    ELSE Out(Ok(None), [d1 EXCEPT !.enc = Some(ciphertext)], FALSE)

\* a variant that removes the legacy file instead of renaming it
rename_plain_aside_removed(d) == [d EXCEPT !.plain = None]

\* std::fs::rename of vault.db to vault.db.plain.backup
rename_plain_aside(d) == [d EXCEPT !.plain = None, !.bak = d.plain]

MigrateSteps == {"mkdir", "set_password", "read_plain", "rename"}
MigrateWrites == {"write_enc"}

\* a variant in the order of the doc comment: read plain, encrypt, write the
\* artifact, store the key, rename the legacy file
migrate_plain_to_encrypted_key_last(d, passphrase, randkey, nonce, f) ==
    IF f.step = "mkdir" THEN Out(Err("io"), d, TRUE)
    ELSE IF d.plain = None THEN Out(Err("Plain vault.db bulunamadi"), d, FALSE)
    ELSE LET key == obtain_key(passphrase, randkey) IN
    IF ~key.ok THEN Out(Err(key.err), d, FALSE)
    ELSE IF f.step = "read_plain" THEN Out(Err("io"), d, TRUE)
    ELSE LET ciphertext == encrypt_file(key.val, nonce, Unwrap(d.plain)) IN
    IF f.step = "write_enc" THEN
        Out(Err("io"), [d EXCEPT !.enc = fs_write(d.enc, ciphertext, f)], TRUE)
    ELSE LET d1 == [d EXCEPT !.enc = Some(ciphertext)]
             s == set_db_key(d1, key.val, f) IN
    IF ~s.res.ok THEN Out(Err(s.res.err), d1, s.hit)
    ELSE IF f.step = "rename" THEN Out(Err("io"), s.d, TRUE)
    ELSE Out(Ok(None), rename_plain_aside(s.d), FALSE)

migrate_plain_to_encrypted(d, passphrase, randkey, nonce, f) ==
    IF f.step = "mkdir" THEN Out(Err("io"), d, TRUE)
    ELSE IF d.plain = None THEN Out(Err("Plain vault.db bulunamadi"), d, FALSE)
    ELSE LET key == obtain_key(passphrase, randkey) IN
    IF ~key.ok THEN Out(Err(key.err), d, FALSE)
    ELSE LET s == set_db_key(d, key.val, f) IN
    IF ~s.res.ok THEN Out(Err(s.res.err), d, s.hit)
    ELSE IF f.step = "read_plain" THEN Out(Err("io"), s.d, TRUE)
    ELSE LET ciphertext == encrypt_file(key.val, nonce, Unwrap(d.plain)) IN
    IF f.step = "write_enc" THEN
        Out(Err("io"), [s.d EXCEPT !.enc = fs_write(d.enc, ciphertext, f)], TRUE)
    ELSE LET d1 == [s.d EXCEPT !.enc = Some(ciphertext)] IN
    IF f.step = "rename" THEN Out(Err("io"), d1, TRUE)
    ELSE Out(Ok(None), rename_plain_aside(d1), FALSE)

\* --------------------------------------------------------------- commands
encryption_setup_create_key ==
    /\ phase = "running"
    /\ \E in \in KeyInputs, nonce \in Nonces,
          f \in FaultsAt(SetupSteps, SetupWrites) :
        \E o \in {setup_create_key(Disk, in.passphrase, in.randkey, nonce, f)} :
        /\ Reached(o, f)
        /\ ApplyDisk(o)
        /\ UNCHANGED << phase, db, paths, setup >>
        /\ last' = [Last("create_key", o.res.ok, ResMsg(o.res), f)
                        EXCEPT !.input = in.passphrase]
    /\ UNCHANGED << backupVars, threadVars >>

encryption_migrate_plain_db ==
    /\ phase = "running"
    /\ \E in \in KeyInputs, nonce \in Nonces,
          f \in FaultsAt(MigrateSteps, MigrateWrites) :
        \E o \in {migrate_plain_to_encrypted(Disk, in.passphrase, in.randkey, nonce, f)} :
        /\ Reached(o, f)
        /\ ApplyDisk(o)
        /\ UNCHANGED << phase, db, paths, setup >>
        /\ last' = [Last("migrate_plain", o.res.ok, ResMsg(o.res), f)
                        EXCEPT !.input = in.passphrase]
    /\ UNCHANGED << backupVars, threadVars >>

\* a variant that handles the result of init_db the way the setup closure
\* of run() does: NeedSetup puts the reason back
encryption_setup_open_db_as_run ==
    /\ phase = "running"
    /\ \E nonce \in Nonces, f \in FaultsAt(InitDbSteps, InitDbWrites) :
        \E o \in {init_db(Disk, nonce, f)} :
        /\ Reached(o, f)
        /\ ApplyDisk(o)
        /\ IF o.res.ok THEN
               /\ db' = Some("conn") /\ paths' = o.res.val /\ setup' = None
           ELSE IF IsNeedSetup(o.res) THEN
               /\ db' = None /\ paths' = None /\ setup' = Some(ReasonOf(o.res))
           ELSE UNCHANGED << db, paths, setup >>
        /\ UNCHANGED phase
        /\ last' = Last("open_db", o.res.ok, ResMsg(o.res), f)
    /\ UNCHANGED << backupVars, threadVars >>

\* a variant that clears the setup reason whatever init_db returned
encryption_setup_open_db_clears_setup ==
    /\ phase = "running"
    /\ \E nonce \in Nonces, f \in FaultsAt(InitDbSteps, InitDbWrites) :
        \E o \in {init_db(Disk, nonce, f)} :
        /\ Reached(o, f)
        /\ ApplyDisk(o)
        /\ IF o.res.ok THEN db' = Some("conn") /\ paths' = o.res.val
           ELSE UNCHANGED << db, paths >>
        /\ setup' = None
        /\ UNCHANGED phase
        /\ last' = Last("open_db", o.res.ok, ResMsg(o.res), f)
    /\ UNCHANGED << backupVars, threadVars >>

encryption_setup_open_db ==
    /\ phase = "running"
    /\ \E nonce \in Nonces, f \in FaultsAt(InitDbSteps, InitDbWrites) :
        \E o \in {init_db(Disk, nonce, f)} :
        /\ Reached(o, f)
        /\ ApplyDisk(o)
        /\ IF o.res.ok THEN
               /\ db' = Some("conn") /\ paths' = o.res.val /\ setup' = None
               /\ UNCHANGED phase
               /\ last' = Last("open_db", o.res.ok, ResMsg(o.res), f)
           ELSE
               /\ UNCHANGED << phase, db, paths, setup >>
               /\ last' = Last("open_db", o.res.ok, ResMsg(o.res), f)
    /\ UNCHANGED << backupVars, threadVars >>

get_encryption_state ==
    /\ phase = "running"
    /\ last' = Last("get_state", TRUE,
                    IF setup = None THEN "Ready" ELSE Unwrap(setup), NoFault)
    /\ UNCHANGED << phase, db, paths, setup, diskVars, backupVars, threadVars >>

\* a store command (contact_create, note_create, ...) committing one row
\* through the connection of DbState
store_write ==
    /\ phase = "running"
    /\ db # None
    /\ f_tmp # None
    /\ IsDb(Unwrap(f_tmp))
    /\ Len(Unwrap(f_tmp)) < MaxDbLen
    /\ \E b \in DataBytes :
        /\ f_tmp' = Some(Append(Unwrap(f_tmp), b))
        /\ last' = Last("store_write", TRUE, "ok", NoFault)
    /\ UNCHANGED << phase, db, paths, setup, keychain, f_plain, f_enc, f_bak, backupVars,
                    threadVars >>

\* a variant that runs the flush a second time when the first one failed
on_window_event_retrying ==
    /\ phase = "running"
    /\ \E nonce \in Nonces, f \in FaultsAt(FlushSteps, FlushWrites) :
        IF db # None /\ paths # None THEN
            \E o \in {flush_encrypted_db(Disk, nonce, f)} :
            /\ Reached(o, f)
            /\ IF o.res.ok THEN ApplyDisk(o)
               ELSE ApplyDisk(flush_encrypted_db(o.d, nonce, NoFault))
            /\ last' = Last("close", o.res.ok, ResMsg(o.res), f)
        ELSE
            /\ f = NoFault
            /\ UNCHANGED diskVars
            /\ last' = Last("close", TRUE, "no flush", f)
    /\ phase' = "off" /\ db' = None /\ paths' = None /\ setup' = None
    /\ UNCHANGED << backupVars, threadVars >>

\* lib.rs on_window_event(CloseRequested): flush when both the connection
\* and the paths are held, drop the result, and let the window close
on_window_event ==
    /\ phase = "running"
    /\ \E nonce \in Nonces, f \in FaultsAt(FlushSteps, FlushWrites) :
        IF db # None /\ paths # None THEN
            \E o \in {flush_encrypted_db(Disk, nonce, f)} :
            /\ Reached(o, f)
            /\ ApplyDisk(o)
            /\ last' = Last("close", o.res.ok, ResMsg(o.res), f)
        ELSE
            /\ f = NoFault
            /\ UNCHANGED diskVars
            /\ last' = Last("close", TRUE, "no flush", f)
    /\ phase' = "off" /\ db' = None /\ paths' = None /\ setup' = None
    /\ UNCHANGED << backupVars, threadVars >>

\* the process is killed between two steps: its threads and the locks
\* they hold are gone
kill ==
    /\ phase = "running"
    /\ phase' = "off" /\ db' = None /\ paths' = None /\ setup' = None
    /\ tasks' = NoTasks /\ locks' = NoLocks
    /\ last' = Last("kill", TRUE, "ok", NoFault)
    /\ UNCHANGED << diskVars, backupVars >>

NoRounds == [n |-> 0, created |-> {}, faulty |-> FALSE]

\* ----------------------------------------------------------- initial state
\* what the data directory and the keychain hold before the first launch:
\* nothing, a legacy plaintext store (with or without an artifact brought
\* along), or an artifact whose key is not in this keychain
LegacyStores == {SchemaBytes \o << 3 >>}
ForeignArtifact == encrypt_file(KeyOf(1), Fill(NONCE_LEN, 1), SchemaBytes)

Init ==
    /\ phase = "off"
    /\ keychain = None
    /\ f_plain \in {None} \cup {Some(c) : c \in LegacyStores}
    /\ f_enc \in {None, Some(ForeignArtifact)}
    /\ f_tmp = None
    /\ f_bak = None
    /\ db = None
    /\ paths = None
    /\ setup = None
    /\ clock = 0
    /\ backups = << >>
    /\ extra_dir = << >>
    /\ sync_dir = << >>
    /\ settings = [backup_dir |-> None, sync_folder |-> None]
    /\ rounds = NoRounds
    /\ last = Last("boot", TRUE, "ok", NoFault)
    /\ tasks = NoTasks
    /\ locks = NoLocks

Next ==
    \/ run
    \/ encryption_setup_create_key
    \/ encryption_migrate_plain_db
    \/ encryption_setup_open_db
    \/ get_encryption_state
    \/ store_write
    \/ on_window_event
    \/ kill

Spec == Init /\ [][Next]_vars

\* ------------------------------------------------- backup and replication
\* file names are sequences of literal pieces; the timestamp piece is the
\* rendering of Utc::now() in whole seconds
BACKUP_PREFIX == << "vault-backup-" >>
BACKUP_SUFFIX == << ".encrypted" >>
VAULT_SYNC_NAME == << "vault-sync", ".encrypted" >>

StartsWith(n, pre) == Len(n) >= Len(pre) /\ SubSeq(n, 1, Len(pre)) = pre
EndsWith(n, suf) == Len(n) >= Len(suf) /\ SubSeq(n, Len(n) - Len(suf) + 1, Len(n)) = suf

Timestamp(now) == << ToString(now) >>
BackupName(now) == BACKUP_PREFIX \o Timestamp(now) \o BACKUP_SUFFIX

\* a directory: file name -> [bytes, mtime, readable]; readable is whether
\* metadata().modified() succeeds on the entry
EmptyDir == << >>
File(bytes, mtime) == [bytes |-> bytes, mtime |-> mtime, readable |-> TRUE]
PutFile(dir, name, file) == [n \in DOMAIN dir \cup {name} |-> IF n = name THEN file ELSE dir[n]]
RemoveFiles(dir, names) == [n \in DOMAIN dir \ names |-> dir[n]]

\* str::trim on a path given as character codes (32 is a blank)
RECURSIVE TrimStart(_)
TrimStart(p) == IF p # << >> /\ Head(p) = 32 THEN TrimStart(Tail(p)) ELSE p
RECURSIVE TrimEnd(_)
TrimEnd(p) == IF p # << >> /\ p[Len(p)] = 32 THEN TrimEnd(Prefix(p, Len(p) - 1)) ELSE p
Trim(p) == TrimEnd(TrimStart(p))

\* the entries prune considers, and the time its sort reads for each
IsBackupName(n) == StartsWith(n, BACKUP_PREFIX) /\ EndsWith(n, BACKUP_SUFFIX)
BackupEntries(dir) == {n \in DOMAIN dir : IsBackupName(n)}
SortTime(dir, n) == IF dir[n].readable THEN dir[n].mtime ELSE UNIX_EPOCH

\* read_dir yields the entries in any order and sort_by is stable, so the
\* sorted vector is any arrangement of the entries by descending sort time
RECURSIVE SortedEntries(_, _)
SortedEntries(dir, names) ==
    IF names = {} THEN {<< >>}
    ELSE LET newest == {n \in names : \A m \in names : SortTime(dir, m) <= SortTime(dir, n)}
         IN UNION {{<< n >> \o rest : rest \in SortedEntries(dir, names \ {n})} : n \in newest}

\* prune_backups_in_dir for one sorted vector: remove what follows the
\* first keep entries; a removal that fails is ignored
\* a variant that keeps one entry fewer
Skip_one_early(sorted, keep) == {sorted[i] : i \in (IF keep > 0 THEN keep ELSE 1)..Len(sorted)}

\* into_iter().skip(keep): the entries prune removes
Skip(sorted, keep) == {sorted[i] : i \in (keep + 1)..Len(sorted)}
prune_backups_in_dir(dir, keep, sorted, f) ==
    IF f.step = "remove" THEN dir ELSE RemoveFiles(dir, Skip(sorted, keep))

\* std::fs::copy into a directory: the destination is created or truncated
\* and filled; a fault leaves the bytes copied so far
fs_copy(dir, name, bytes, now, f) ==
    PutFile(dir, name, File(Prefix(bytes, IF f.cut < Len(bytes) THEN f.cut ELSE Len(bytes) - 1), now))

BackupSteps == {"mkdir", "copy_open", "read_dir", "remove", "setting_backup_dir", "setting_sync",
                "extra_mkdir", "extra_copy_open", "extra_read_dir", "sync_mkdir", "sync_copy_open"}
BackupWrites == {"copy", "extra_copy", "sync_copy"}

\* the folders run_backup writes to
Folders == [backups |-> backups, extra |-> extra_dir, sync |-> sync_dir]

\* the optional copy into the folder of setting backup_dir (F3.2): every
\* result is dropped
extra_stage(enc, dir, name, now, f) ==
    IF f.step = "extra_mkdir" \/ f.step = "extra_copy_open" THEN {dir}
    ELSE IF f.step = "extra_copy" THEN
        LET d1 == fs_copy(dir, name, enc, now, f) IN
        {prune_backups_in_dir(d1, BACKUP_KEEP_COUNT, s, f) : s \in SortedEntries(d1, BackupEntries(d1))}
    ELSE LET d1 == PutFile(dir, name, File(enc, now)) IN
        IF f.step = "extra_read_dir" THEN {d1}
        ELSE {prune_backups_in_dir(d1, BACKUP_KEEP_COUNT, s, f) : s \in SortedEntries(d1, BackupEntries(d1))}

\* a variant that names the sync copy by the time of the round
sync_stage_versioned(enc, dir, now, f) ==
    LET name == << "vault-sync-" >> \o Timestamp(now) \o BACKUP_SUFFIX IN
    IF f.step = "sync_mkdir" \/ f.step = "sync_copy_open" THEN dir
    ELSE IF f.step = "sync_copy" THEN fs_copy(dir, name, enc, now, f)
    ELSE PutFile(dir, name, File(enc, now))

\* the optional copy into the folder of setting sync_folder (G1.2)
sync_stage(enc, dir, now, f) ==
    IF f.step = "sync_mkdir" \/ f.step = "sync_copy_open" THEN dir
    ELSE IF f.step = "sync_copy" THEN fs_copy(dir, VAULT_SYNC_NAME, enc, now, f)
    ELSE PutFile(dir, VAULT_SYNC_NAME, File(enc, now))

IsSet(setting) == setting # None /\ Trim(Unwrap(setting)) # << >>
ExtraFaults == {"extra_mkdir", "extra_copy_open", "extra_copy", "extra_read_dir"}
SyncFaults == {"sync_mkdir", "sync_copy_open", "sync_copy"}

\* the tail of run_backup after the primary copy and prune: the two
\* setting_get calls and the optional stages
replicate(enc, fo, set, name, now, f) ==
    IF f.step = "setting_backup_dir" THEN {Out(Err("sqlite"), fo, TRUE)}
    ELSE
        LET extras == IF IsSet(set.backup_dir)
                      THEN extra_stage(enc, fo.extra, name, now, f)
                      ELSE {fo.extra}
            hitE == IsSet(set.backup_dir) /\ f.step \in ExtraFaults
        IN IF f.step = "setting_sync"
           THEN {Out(Err("sqlite"), [fo EXCEPT !.extra = e], TRUE) : e \in extras}
           ELSE LET sync == IF IsSet(set.sync_folder)
                            THEN sync_stage(enc, fo.sync, now, f)
                            ELSE fo.sync
                    hitS == IsSet(set.sync_folder) /\ f.step \in SyncFaults
                IN {Out(Ok(None), [fo EXCEPT !.extra = e, !.sync = sync], hitE \/ hitS) : e \in extras}

\* a variant that drops the result of the primary copy
primary_copy_swallowed(enc, dir, name, now, f) ==
    IF f.step = "copy_open" \/ enc = None THEN Out(Ok(None), dir, f.step = "copy_open")
    ELSE IF f.step = "copy" THEN Out(Ok(None), fs_copy(dir, name, Unwrap(enc), now, f), TRUE)
    ELSE Out(Ok(None), PutFile(dir, name, File(Unwrap(enc), now)), FALSE)

\* the primary copy of run_backup: a failure is returned to the caller
primary_copy(enc, dir, name, now, f) ==
    IF f.step = "copy_open" \/ enc = None THEN Out(Err("io"), dir, f.step = "copy_open")
    ELSE IF f.step = "copy" THEN Out(Err("io"), fs_copy(dir, name, Unwrap(enc), now, f), TRUE)
    ELSE Out(Ok(None), PutFile(dir, name, File(Unwrap(enc), now)), FALSE)

\* run_backup: the set of outcomes, one per order read_dir may produce
run_backup(enc, fo, set, now, f) ==
    LET name == BackupName(now) IN
    IF f.step = "mkdir" THEN {Out(Err("io"), fo, TRUE)}
    ELSE LET c == primary_copy(enc, fo.backups, name, now, f) IN
    IF ~c.res.ok THEN {Out(c.res, [fo EXCEPT !.backups = c.d], c.hit)}
    ELSE IF f.step = "read_dir" THEN {Out(Err("io"), [fo EXCEPT !.backups = c.d], TRUE)}
    ELSE UNION {
        LET pruned == prune_backups_in_dir(c.d, BACKUP_KEEP_COUNT, s, f)
            outs == replicate(Unwrap(enc), [fo EXCEPT !.backups = pruned], set, name, now, f)
        IN {Out(o.res, o.d, c.hit \/ o.hit \/ (f.step = "remove" /\ Skip(s, BACKUP_KEEP_COUNT) # {})) : o \in outs}
        : s \in SortedEntries(c.d, BackupEntries(c.d))}

\* ---------------------------------------------- the backup manager driven
\* run_backup has no caller in lib.rs; here it is driven the way its doc
\* comment says, after a flush, from a session that is Ready
PathInputs == {<< >>, << 32 >>, << 47, 98 >>}

InitBackup ==
    /\ phase = "running"
    /\ keychain = Some(B64Encode(KeyOf(1)))
    /\ f_plain = None
    /\ f_tmp = Some(SchemaBytes)
    /\ f_enc = Some(encrypt_file(KeyOf(1), Fill(NONCE_LEN, 1), SchemaBytes))
    /\ f_bak = None
    /\ db = Some("conn")
    /\ paths = Some(PathPair)
    /\ setup = None
    /\ clock = 0
    /\ backups = EmptyDir
    /\ extra_dir = EmptyDir
    /\ sync_dir = EmptyDir
    /\ settings = [backup_dir |-> None, sync_folder |-> None]
    /\ rounds = NoRounds
    /\ last = Last("boot", TRUE, "ok", NoFault)
    /\ tasks = NoTasks
    /\ locks = NoLocks

tick ==
    /\ clock < MaxClock
    /\ clock' = clock + 1
    /\ UNCHANGED << phase, db, paths, setup, diskVars, backups, extra_dir, sync_dir,
                    settings, rounds, last, threadVars >>

\* one flush-and-backup round: flush_encrypted_db, then run_backup on the
\* artifact it wrote; the record keeps the number of files the sync folder
\* held before the round
backup_round ==
    /\ phase = "running" /\ db # None /\ paths # None
    /\ rounds.n < MaxFaultRounds
    /\ \E nonce \in Nonces, f \in FaultsAt(BackupSteps, BackupWrites) :
       \E fl \in {flush_encrypted_db(Disk, nonce, NoFault)} :
       \E o \in run_backup(fl.d.enc, Folders, settings, clock, f) :
        /\ fl.res.ok
        /\ Reached(o, f)
        /\ ApplyDisk(fl)
        /\ backups' = o.d.backups
        /\ extra_dir' = o.d.extra
        /\ sync_dir' = o.d.sync
        /\ rounds' = [n |-> rounds.n + 1, created |-> rounds.created \cup {clock},
                      faulty |-> rounds.faulty \/ f.step # "none"]
        /\ last' = [Last("backup", o.res.ok, ResMsg(o.res), f)
                        EXCEPT !.arg = Cardinality(DOMAIN sync_dir)]
    /\ UNCHANGED << phase, db, paths, setup, clock, settings, threadVars >>

backup_dir_set ==
    /\ phase = "running" /\ db # None
    /\ \E path \in PathInputs :
        /\ settings' = [settings EXCEPT !.backup_dir = Some(Trim(path))]
        /\ last' = Last("backup_dir_set", TRUE, "ok", NoFault)
    /\ UNCHANGED << phase, db, paths, setup, diskVars, clock, backups, extra_dir, sync_dir, rounds,
                    threadVars >>

sync_folder_set ==
    /\ phase = "running" /\ db # None
    /\ \E path \in PathInputs :
        /\ settings' = [settings EXCEPT !.sync_folder = Some(Trim(path))]
        /\ last' = Last("sync_folder_set", TRUE, "ok", NoFault)
    /\ UNCHANGED << phase, db, paths, setup, diskVars, clock, backups, extra_dir, sync_dir, rounds,
                    threadVars >>

NextBackup ==
    \/ tick
    \/ store_write
    \/ backup_round
    \/ backup_dir_set
    \/ sync_folder_set

SpecBackup == InitBackup /\ [][NextBackup]_vars

\* ---------------------------------------------------------- retention runs
\* sequential fault-free rounds with no optional folder configured; each
\* round runs dt seconds after the one before
retention_round ==
    /\ phase = "running" /\ db # None /\ paths # None
    /\ rounds.n < MaxRounds
    /\ \E dt \in {0, 1, 2} :
       \E o \in run_backup(f_enc, Folders, settings, clock + dt, NoFault) :
        /\ clock' = clock + dt
        /\ backups' = o.d.backups
        /\ extra_dir' = o.d.extra
        /\ sync_dir' = o.d.sync
        /\ rounds' = [n |-> rounds.n + 1, created |-> rounds.created \cup {clock + dt},
                      faulty |-> FALSE]
        /\ last' = Last("backup", o.res.ok, ResMsg(o.res), NoFault)
    /\ UNCHANGED << phase, db, paths, setup, diskVars, settings, threadVars >>

NextRetention == retention_round

SpecRetention == InitBackup /\ [][NextRetention]_vars

\* -------------------------------------------------------- prune on its own
\* prune_backups_in_dir applied once to a directory drawn from: backups
\* with equal, different or unreadable modification times, and files that
\* carry only the prefix or only the suffix
PruneTimes == {1, 2}
OtherNames == {BACKUP_PREFIX \o << "notes" >>, << "old" >> \o BACKUP_SUFFIX}
PruneNames == {BackupName(i) : i \in 1..MaxDirFiles} \cup OtherNames
PruneFiles == {[bytes |-> << >>, mtime |-> t, readable |-> r] : t \in PruneTimes, r \in BOOLEAN}
PruneDirs == UNION {[names -> PruneFiles] : names \in SUBSET PruneNames}

InitPrune ==
    /\ phase = "off"
    /\ keychain = None /\ f_plain = None /\ f_enc = None /\ f_tmp = None /\ f_bak = None
    /\ db = None /\ paths = None /\ setup = None
    /\ clock = 0
    /\ backups \in PruneDirs
    /\ extra_dir = EmptyDir
    /\ sync_dir = EmptyDir
    /\ settings = [backup_dir |-> None, sync_folder |-> None]
    /\ rounds = NoRounds
    /\ last = Last("boot", TRUE, "ok", NoFault)
    /\ tasks = NoTasks
    /\ locks = NoLocks

prune_dir ==
    /\ last.op = "boot"
    /\ \E keep \in 0..MaxDirFiles, f \in FaultsAt({"remove"}, {}) :
       \E sorted \in SortedEntries(backups, BackupEntries(backups)) :
        /\ (f.step = "remove") => Skip(sorted, keep) # {}
        /\ backups' = prune_backups_in_dir(backups, keep, sorted, f)
        /\ last' = [Last("prune", TRUE,
                          IF Skip(sorted, keep) # {} /\ f.step # "remove"
                          THEN "removed" ELSE "kept all", f) EXCEPT !.arg = keep]
    /\ UNCHANGED << phase, db, paths, setup, diskVars, clock, extra_dir, sync_dir,
                    settings, rounds, threadVars >>

NextPrune == prune_dir

SpecPrune == InitPrune /\ [][NextPrune]_vars

\* ------------------------------------------------------- startup on its own
\* run() on a data directory and a keychain entry left by anything that ran
\* before: an earlier installation, another program using the entry, a
\* session that was killed.  The entry holds a key, a shorter secret, the
\* empty string, or text that is not base64.
StoredSecrets ==
    {None, Some(B64Encode(KeyOf(1))), Some(B64Encode(Fill(KEY_LEN - 1, 1))),
     Some(<< >>), Some(<< 1, 2, 3 >>)}
StaleWorkingCopies == {SchemaBytes \o << 2 >>}

InitStartup ==
    /\ phase = "off"
    /\ keychain \in StoredSecrets
    /\ f_plain \in {None} \cup {Some(c) : c \in LegacyStores}
    /\ f_enc \in {None, Some(ForeignArtifact)}
    /\ f_tmp \in {None} \cup {Some(c) : c \in StaleWorkingCopies}
    /\ f_bak = None
    /\ db = None
    /\ paths = None
    /\ setup = None
    /\ clock = 0
    /\ backups = EmptyDir
    /\ extra_dir = EmptyDir
    /\ sync_dir = EmptyDir
    /\ settings = [backup_dir |-> None, sync_folder |-> None]
    /\ rounds = NoRounds
    /\ last = Last("boot", TRUE, "ok", NoFault)
    /\ tasks = NoTasks
    /\ locks = NoLocks

NextStartup ==
    \/ run
    \/ kill

SpecStartup == InitStartup /\ [][NextStartup]_vars

\* ------------------------------------------------------ derived predicates
\* the key get_db_key hands out for a keychain content, if any
StoredKey(kc) == get_db_key([keychain |-> kc], NoFault).res
HasKey(kc) == StoredKey(kc).ok /\ StoredKey(kc).val # None
KeyBytes(kc) == Unwrap(StoredKey(kc).val)

\* the artifact is complete: it decrypts under the stored key
Decrypts(kc, enc) ==
    /\ HasKey(kc)
    /\ enc # None
    /\ decrypt_file(KeyBytes(kc), Unwrap(enc)).ok
PlainOf(kc, enc) == decrypt_file(KeyBytes(kc), Unwrap(enc)).val

\* the state get_encryption_state reports
Ready == phase = "running" /\ setup = None
ReadyNext == phase' = "running" /\ setup' = None

\* the step is a fault-free run of the named operation
Ran(op) == last'.op = op /\ last'.fault = "none"
\* the shutdown hook ran flush_encrypted_db and it returned Ok
Flushed == last'.op = "close" /\ last'.ok /\ last'.msg = "ok"

\* ------------------------------------------------------ the cipher alone
\* encrypt_file and decrypt_file applied to drawn inputs: a plaintext (in
\* f_plain) is encrypted under a key (kept, encoded, in keychain); the
\* artifact (in f_enc, a clean copy of it in backups) may be damaged once,
\* by truncation or by a flipped bit behind the nonce; decrypt_file is then
\* applied under the same or another key and answers in f_tmp and last
Messages == UNION {[1..n -> {0, 255}] : n \in 0..MaxMsgLen}
CipherKeys == RandKeys \cup {derive_key(Unwrap(p)).val : p \in Passphrases \ {Some(<< >>)}}
\* the bits a damage flips, by weight: the lowest and the highest of a byte
FlippedBits == {1, 128}
FlipBit(b, w) == IF (b \div w) % 2 = 1 THEN b - w ELSE b + w

\* the artifact as encrypt_file returned it
Pristine == backups[BackupName(0)].bytes

InitCipher ==
    /\ phase = "off"
    /\ keychain = None
    /\ f_plain \in {Some(m) : m \in Messages}
    /\ f_enc = None
    /\ f_tmp = None
    /\ f_bak = None
    /\ db = None
    /\ paths = None
    /\ setup = None
    /\ clock = 0
    /\ backups = EmptyDir
    /\ extra_dir = EmptyDir
    /\ sync_dir = EmptyDir
    /\ settings = [backup_dir |-> None, sync_folder |-> None]
    /\ rounds = NoRounds
    /\ last = Last("boot", TRUE, "ok", NoFault)
    /\ tasks = NoTasks
    /\ locks = NoLocks

cipherFrame == << phase, db, paths, setup, f_bak, clock, extra_dir, sync_dir, settings,
                 rounds, threadVars >>

cipher_encrypt ==
    /\ last.op = "boot"
    /\ \E key \in CipherKeys, nonce \in Nonces :
        \E artifact \in {encrypt_file(key, nonce, Unwrap(f_plain))} :
        /\ keychain' = Some(B64Encode(key))
        /\ f_enc' = Some(artifact)
        /\ backups' = PutFile(EmptyDir, BackupName(0), File(artifact, 0))
        /\ last' = Last("encrypt", TRUE, "ok", NoFault)
    /\ UNCHANGED << f_plain, f_tmp, cipherFrame >>

cipher_truncate ==
    /\ last.op = "encrypt"
    /\ \E n \in 0..(Len(Unwrap(f_enc)) - 1) :
        /\ f_enc' = Some(Prefix(Unwrap(f_enc), n))
        /\ last' = [Last("truncate", TRUE, "ok", NoFault) EXCEPT !.arg = n]
    /\ UNCHANGED << keychain, f_plain, f_tmp, backups, cipherFrame >>

cipher_flip ==
    /\ last.op = "encrypt"
    /\ \E i \in (NONCE_LEN + 1)..Len(Unwrap(f_enc)), w \in FlippedBits :
        /\ f_enc' = Some([Unwrap(f_enc) EXCEPT ![i] = FlipBit(@, w)])
        /\ last' = [Last("flip", TRUE, "ok", NoFault) EXCEPT !.arg = i]
    /\ UNCHANGED << keychain, f_plain, f_tmp, backups, cipherFrame >>

cipher_decrypt ==
    /\ last.op \in {"encrypt", "truncate", "flip"}
    /\ \E key \in CipherKeys :
        \E r \in {decrypt_file(key, Unwrap(f_enc))} :
        /\ f_tmp' = IF r.ok THEN Some(r.val) ELSE None
        /\ last' = [Last("decrypt", r.ok, ResMsg(r), NoFault) EXCEPT !.input = Some(key)]
    /\ UNCHANGED << keychain, f_plain, f_enc, backups, cipherFrame >>

NextCipher ==
    \/ cipher_encrypt
    \/ cipher_truncate
    \/ cipher_flip
    \/ cipher_decrypt

SpecCipher == InitCipher /\ [][NextCipher]_vars

\* ------------------------------------------------- handlers step by step
\* The same handlers as sequences of steps, each on the thread the tauri
\* runtime gives it.  A command declared `#[tauri::command] pub fn` (no
\* async) runs on the main thread, and so does a window event: the thread
\* takes the next handler when the one before has returned.
ThreadOf_async(op) == IF op = "close" THEN "main" ELSE "pool"

ThreadOf(op) == "main"

Handlers == {"create_key", "migrate_plain", "open_db", "get_state", "store", "close"}

\* a vault artifact an earlier session published (its nonce is none of the
\* nonces this run draws)
EarlierArtifact == encrypt_file(KeyOf(1), Fill(NONCE_LEN, 0), SchemaBytes)

InitThreads ==
    /\ phase = "off"
    /\ keychain \in {None, Some(B64Encode(KeyOf(1)))}
    /\ f_plain \in {None} \cup {Some(c) : c \in LegacyStores}
    /\ f_enc \in {None, Some(EarlierArtifact)}
    /\ f_tmp = None
    /\ f_bak = None
    /\ db = None
    /\ paths = None
    /\ setup = None
    /\ clock = 0
    /\ backups = EmptyDir
    /\ extra_dir = EmptyDir
    /\ sync_dir = EmptyDir
    /\ settings = [backup_dir |-> None, sync_folder |-> None]
    /\ rounds = NoRounds
    /\ last = Last("boot", TRUE, "ok", NoFault)
    /\ tasks = NoTasks
    /\ locks = NoLocks

At(t, op, pc) == tasks[t].op = op /\ tasks[t].pc = pc
Goto(t, pc) == tasks' = [tasks EXCEPT ![t].pc = pc]
Return(t) == tasks' = [tasks EXCEPT ![t] = Idle]
Acquire(t, m) == locks[m] = "free" /\ locks' = [locks EXCEPT ![m] = t]
ReleaseAll(t) == locks' = [m \in Mutexes |-> IF locks[m] = t THEN "free" ELSE locks[m]]

\* the runtime hands an invoke message or a CloseRequested event to the
\* thread of its handler once that thread is free
dispatch ==
    /\ phase = "running"
    /\ \E op \in Handlers, in \in KeyInputs :
        /\ op \notin {"create_key", "migrate_plain"} => in = NoInput
        /\ tasks[ThreadOf(op)] = Idle
        /\ tasks' = [tasks EXCEPT ![ThreadOf(op)] = [op |-> op, pc |-> "begin", in |-> in]]
    /\ UNCHANGED << phase, db, paths, setup, diskVars, backupVars, last, locks >>

\* the whole of a setup action on the disk as it is now
setup_outcome(op, in, nonce) ==
    IF op = "create_key"
    THEN setup_create_key(Disk, in.passphrase, in.randkey, nonce, NoFault)
    ELSE migrate_plain_to_encrypted(Disk, in.passphrase, in.randkey, nonce, NoFault)

\* setup_create_key / migrate_plain_to_encrypted up to set_db_key
setup_begin(t) ==
    /\ tasks[t].op \in {"create_key", "migrate_plain"} /\ tasks[t].pc = "begin"
    /\ \E nonce \in Nonces :
        \E o \in {setup_outcome(tasks[t].op, tasks[t].in, nonce)} :
        /\ keychain' = o.d.keychain
        /\ IF o.res.ok THEN Goto(t, "flush") /\ UNCHANGED last
           ELSE /\ Return(t)
                /\ last' = [Last(tasks[t].op, FALSE, o.res.err, NoFault)
                                EXCEPT !.input = tasks[t].in.passphrase]
    /\ UNCHANGED << phase, db, paths, setup, f_plain, f_enc, f_tmp, f_bak, backupVars, locks >>

\* the rest of the setup action: the working copy (or the legacy bytes) is
\* read, encrypted and written to the artifact
setup_flush(t) ==
    /\ tasks[t].op \in {"create_key", "migrate_plain"} /\ tasks[t].pc = "flush"
    /\ \E nonce \in Nonces :
        \E o \in {setup_outcome(tasks[t].op, tasks[t].in, nonce)} :
        /\ ApplyDisk(o)
        /\ last' = [Last(tasks[t].op, o.res.ok, ResMsg(o.res), NoFault)
                        EXCEPT !.input = tasks[t].in.passphrase]
    /\ Return(t)
    /\ UNCHANGED << phase, db, paths, setup, backupVars, locks >>

\* encryption_setup_open_db: init_db first, with no lock held; it takes the
\* decrypt path or, with a key and no artifact, the publish path
open_begin(t) ==
    /\ At(t, "open_db", "begin")
    /\ Goto(t, IF HasKey(keychain) /\ f_enc = None THEN "flush" ELSE "init")
    /\ UNCHANGED << phase, db, paths, setup, diskVars, backupVars, last, locks >>

open_init(t) ==
    /\ tasks[t].op = "open_db" /\ tasks[t].pc \in {"flush", "init"}
    /\ \E nonce \in Nonces :
        \E o \in {init_db(Disk, nonce, NoFault)} :
        /\ ApplyDisk(o)
        /\ last' = Last("open_db", o.res.ok, ResMsg(o.res), NoFault)
        /\ IF o.res.ok THEN Goto(t, "set_db") ELSE Return(t)
    /\ UNCHANGED << phase, db, paths, setup, backupVars, locks >>

\* *db.0.lock()? = Some(conn): the guard lives for the statement
open_set_db(t) ==
    /\ At(t, "open_db", "set_db")
    /\ locks["db"] = "free"
    /\ db' = Some("conn")
    /\ Goto(t, "set_paths")
    /\ UNCHANGED << phase, paths, setup, diskVars, backupVars, last, locks >>

\* a variant that leaves EncryptedPathsState as it is
open_set_paths_skipped(t) ==
    /\ At(t, "open_db", "set_paths")
    /\ locks["paths"] = "free"
    /\ Goto(t, "set_setup")
    /\ UNCHANGED << phase, db, paths, setup, diskVars, backupVars, last, locks >>

open_set_paths(t) ==
    /\ At(t, "open_db", "set_paths")
    /\ locks["paths"] = "free"
    /\ paths' = Some(PathPair)
    /\ Goto(t, "set_setup")
    /\ UNCHANGED << phase, db, setup, diskVars, backupVars, last, locks >>

open_set_setup(t) ==
    /\ At(t, "open_db", "set_setup")
    /\ locks["setup"] = "free"
    /\ setup' = None
    /\ Return(t)
    /\ UNCHANGED << phase, db, paths, diskVars, backupVars, last, locks >>

\* get_encryption_state: lock EncryptionSetupState, report, drop the guard
state_lock(t) ==
    /\ At(t, "get_state", "begin")
    /\ Acquire(t, "setup")
    /\ Goto(t, "read")
    /\ UNCHANGED << phase, db, paths, setup, diskVars, backupVars, last >>

state_read(t) ==
    /\ At(t, "get_state", "read")
    /\ last' = Last("get_state", TRUE,
                    IF setup = None THEN "Ready" ELSE Unwrap(setup), NoFault)
    /\ ReleaseAll(t)
    /\ Return(t)
    /\ UNCHANGED << phase, db, paths, setup, diskVars, backupVars >>

\* a store command: lock DbState, commit one row through the connection
store_lock(t) ==
    /\ At(t, "store", "begin")
    /\ Acquire(t, "db")
    /\ Goto(t, "commit")
    /\ UNCHANGED << phase, db, paths, setup, diskVars, backupVars, last >>

\* a variant whose guard is not dropped when the command returns
store_commit_keeps_lock(t) ==
    /\ At(t, "store", "commit")
    /\ IF db # None /\ f_tmp # None /\ IsDb(Unwrap(f_tmp)) /\ Len(Unwrap(f_tmp)) < MaxDbLen
       THEN \E b \in DataBytes :
            /\ f_tmp' = Some(Append(Unwrap(f_tmp), b))
            /\ last' = Last("store_write", TRUE, "ok", NoFault)
       ELSE /\ UNCHANGED f_tmp
            /\ last' = Last("store_write", FALSE,
                            IF db = None THEN "DB not initialized" ELSE "no row written", NoFault)
    /\ Return(t)
    /\ UNCHANGED << phase, db, paths, setup, keychain, f_plain, f_enc, f_bak, backupVars, locks >>

store_commit(t) ==
    /\ At(t, "store", "commit")
    /\ IF db # None /\ f_tmp # None /\ IsDb(Unwrap(f_tmp)) /\ Len(Unwrap(f_tmp)) < MaxDbLen
       THEN \E b \in DataBytes :
            /\ f_tmp' = Some(Append(Unwrap(f_tmp), b))
            /\ last' = Last("store_write", TRUE, "ok", NoFault)
       ELSE /\ UNCHANGED f_tmp
            /\ last' = Last("store_write", FALSE,
                            IF db = None THEN "DB not initialized" ELSE "no row written", NoFault)
    /\ ReleaseAll(t)
    /\ Return(t)
    /\ UNCHANGED << phase, db, paths, setup, keychain, f_plain, f_enc, f_bak, backupVars >>

\* on_window_event(CloseRequested): lock DbState, then EncryptedPathsState
close_lock_db(t) ==
    /\ At(t, "close", "begin")
    /\ Acquire(t, "db")
    /\ Goto(t, "lock_paths")
    /\ UNCHANGED << phase, db, paths, setup, diskVars, backupVars, last >>

close_lock_paths(t) ==
    /\ At(t, "close", "lock_paths")
    /\ Acquire(t, "paths")
    /\ IF db # None /\ paths # None
       THEN Goto(t, "flush") /\ UNCHANGED last
       ELSE Goto(t, "unlock") /\ last' = Last("close", TRUE, "no flush", NoFault)
    /\ UNCHANGED << phase, db, paths, setup, diskVars, backupVars >>

close_flush(t) ==
    /\ At(t, "close", "flush")
    /\ \E nonce \in Nonces :
        \E o \in {flush_encrypted_db(Disk, nonce, NoFault)} :
        /\ ApplyDisk(o)
        /\ last' = Last("close", o.res.ok, ResMsg(o.res), NoFault)
    /\ Goto(t, "unlock")
    /\ UNCHANGED << phase, db, paths, setup, backupVars, locks >>

\* the guards drop, the handler returns, the window closes and the process
\* ends
close_unlock(t) ==
    /\ At(t, "close", "unlock")
    /\ phase' = "off" /\ db' = None /\ paths' = None /\ setup' = None
    /\ tasks' = NoTasks /\ locks' = NoLocks
    /\ UNCHANGED << diskVars, backupVars, last >>

\* a step of a handler that holds a lock: what it does between taking its
\* first guard and dropping the last
HolderStep ==
    \E t \in Threads :
        /\ \E m \in Mutexes : locks[m] = t
        /\ \/ state_read(t)
           \/ store_commit(t)
           \/ close_lock_paths(t) \/ close_flush(t) \/ close_unlock(t)

NextThreads ==
    \/ run
    \/ kill
    \/ dispatch
    \/ \E t \in Threads : setup_begin(t)
    \/ \E t \in Threads : setup_flush(t)
    \/ \E t \in Threads : open_begin(t)
    \/ \E t \in Threads : open_init(t)
    \/ \E t \in Threads : open_set_db(t)
    \/ \E t \in Threads : open_set_paths(t)
    \/ \E t \in Threads : open_set_setup(t)
    \/ \E t \in Threads : state_lock(t)
    \/ \E t \in Threads : state_read(t)
    \/ \E t \in Threads : store_lock(t)
    \/ \E t \in Threads : store_commit(t)
    \/ \E t \in Threads : close_lock_db(t)
    \/ \E t \in Threads : close_lock_paths(t)
    \/ \E t \in Threads : close_flush(t)
    \/ \E t \in Threads : close_unlock(t)

SpecThreads == InitThreads /\ [][NextThreads]_vars

\* a thread that holds a lock keeps running: a step of the holder that
\* stays possible is taken; startups, kills and new invocations come from
\* outside and are not forced
SpecThreadsFair == SpecThreads /\ WF_vars(HolderStep)

\* the threads inside a flush: between the read of the bytes to encrypt
\* and the end of the write of the artifact
Flushing == {t \in Threads : tasks[t].pc = "flush"}

\* ------------------------------------------------------------------ claims

\* C1: a startup that meets no I/O fault ends as the table of the state
\* machine says.  No key, no legacy file, no artifact: NeedsSetup(FirstRun).
\* No key and a legacy file: NeedsSetup(MigratePlain).  No key, no legacy
\* file, an artifact: a fatal error, the app is neither Ready nor NeedsSetup.
\* A key and an artifact matching it: Ready, the working copy holding the
\* decrypted artifact.  A key and no artifact: Ready, a new artifact
\* published that decrypts to the working copy.
C1_Table ==
    LET key == HasKey(keychain)
        legacy == f_plain # None
        artifact == f_enc # None
    IN
    /\ (~key /\ ~legacy /\ ~artifact) =>
           /\ phase' = "running" /\ setup' = Some("FirstRun")
           /\ db' = None /\ paths' = None
    /\ (~key /\ legacy) =>
           /\ phase' = "running" /\ setup' = Some("MigratePlain")
           /\ db' = None /\ paths' = None
    /\ (~key /\ ~legacy /\ artifact) =>
           /\ phase' = "off" /\ ~last'.ok
           /\ last'.msg \notin {"NeedSetup(FirstRun)", "NeedSetup(MigratePlain)"}
    /\ (key /\ artifact /\ Decrypts(keychain, f_enc)) =>
           /\ ReadyNext /\ db' # None /\ paths' # None
           /\ f_tmp' = Some(PlainOf(keychain, f_enc))
           /\ f_enc' = f_enc
    /\ (key /\ ~artifact /\ open_and_init(f_tmp).ok) =>
           /\ ReadyNext /\ db' # None /\ paths' # None
           /\ Decrypts(keychain', f_enc')
           /\ f_tmp' = Some(PlainOf(keychain', f_enc'))
    /\ keychain' = keychain /\ f_plain' = f_plain /\ f_bak' = f_bak

C1_StartupTable == [][Ran("run") => C1_Table]_vars

\* C1 witness: a startup found a key and an artifact and ended Ready with
\* the decrypted artifact in the working copy
C1_Witness ==
    /\ last.op = "run" /\ last.fault = "none" /\ last.msg = "Ready"
    /\ Ready /\ db # None
    /\ Decrypts(keychain, f_enc)
    /\ f_tmp = Some(PlainOf(keychain, f_enc))

\* C2: across a flush, failed or not, the canonical artifact path holds the
\* complete previous artifact or the complete new one, never a partial or
\* empty file.
C2_ArtifactNeverPartial ==
    [][(last'.op = "close" /\ Decrypts(keychain, f_enc)) =>
           (f_enc' = f_enc \/ Decrypts(keychain', f_enc'))]_vars

\* C3: create_key and migrate_plain invoked while the state is Ready are
\* rejected and leave the stored key, the artifact and the working copy
\* unchanged.
C3_SetupRejectedWhenReady ==
    [][(Ready /\ last'.op \in {"create_key", "migrate_plain"}) =>
           /\ ~last'.ok
           /\ keychain' = keychain /\ f_enc' = f_enc /\ f_tmp' = f_tmp]_vars

\* C4: after a successful migrate_plain the legacy file is gone from its
\* path, the renamed-aside backup holds its bytes, and the new artifact
\* decrypts under the stored key to exactly those bytes.
C4_MigrationSafety ==
    [][(last'.op = "migrate_plain" /\ last'.ok) =>
           /\ f_plain # None
           /\ f_plain' = None
           /\ f_bak' = f_plain
           /\ Decrypts(keychain', f_enc')
           /\ PlainOf(keychain', f_enc') = Unwrap(f_plain)]_vars

\* C4 witness: a migration has succeeded and left the backup beside the
\* new artifact
C4_Witness ==
    /\ last.op = "migrate_plain" /\ last.ok
    /\ f_plain = None /\ f_bak # None
    /\ Decrypts(keychain, f_enc)
    /\ PlainOf(keychain, f_enc) = Unwrap(f_bak)

\* C5: after writes to the working copy in the Ready state, a successful
\* flush leaves a canonical artifact that decrypts under the stored key to
\* exactly the bytes the working copy held at the checkpoint.
C5_FlushRoundTrip ==
    [][Flushed =>
           /\ f_tmp # None
           /\ f_tmp' = f_tmp
           /\ Decrypts(keychain', f_enc')
           /\ PlainOf(keychain', f_enc') = Unwrap(f_tmp)]_vars

\* C5 witness: the store wrote a row, the shutdown hook flushed, and the
\* artifact decrypts to the working copy with that row
C5_Witness ==
    /\ last.op = "close" /\ last.ok /\ last.msg = "ok"
    /\ f_tmp # None /\ Len(Unwrap(f_tmp)) > 1
    /\ Unwrap(f_tmp)[Len(Unwrap(f_tmp))] \in DataBytes
    /\ Decrypts(keychain, f_enc)
    /\ PlainOf(keychain, f_enc) = Unwrap(f_tmp)

\* C6: every successful flush is followed by a timestamp-named backup copy
\* of the canonical artifact in the retention directory.
C6_FlushThenBackup ==
    (last.op = "close" /\ last.ok /\ last.msg = "ok") => DOMAIN backups # {}

\* C7: after n sequential fault-free rounds with keep = 7, however the
\* rounds are spaced in time, the retention directory holds exactly
\* min(n, 7) backups and they are the most recently created ones.
C7_RetentionCount ==
    LET kept == BackupEntries(backups)
        n == rounds.n
    IN (last.op = "backup" /\ ~rounds.faulty) =>
        /\ Cardinality(kept) = (IF n < BACKUP_KEEP_COUNT THEN n ELSE BACKUP_KEEP_COUNT)
        /\ \A t \in rounds.created :
               BackupName(t) \notin kept => \A k \in kept : backups[k].mtime > t

OptionalFaults == ExtraFaults \cup SyncFaults \cup {"setting_backup_dir", "setting_sync"}

\* C9: a failure in the steps that replicate to the backup folder and the
\* sync folder never makes run_backup return an error and never removes or
\* alters the primary retention copy or the canonical artifact.
C9_ReplicationBestEffort ==
    [][(last'.op = "backup" /\ last'.fault \in OptionalFaults) =>
           /\ last'.ok
           /\ BackupName(clock) \in DOMAIN backups'
           /\ backups'[BackupName(clock)].bytes = Unwrap(f_enc')
           /\ Decrypts(keychain', f_enc')]_vars

\* C10: when the copy of the canonical artifact into the retention
\* directory fails, run_backup returns an error.
C10_PrimaryCopyFailureReported ==
    (last.op = "backup" /\ last.fault \in {"copy", "copy_open"}) => ~last.ok

\* C10 witness: a round whose primary copy broke off returned an error and
\* left the truncated file behind
C10_Witness ==
    /\ last.op = "backup" /\ last.fault = "copy" /\ ~last.ok
    /\ BackupName(clock) \in DOMAIN backups
    /\ backups[BackupName(clock)].bytes # Unwrap(f_enc)

\* C11: with a sync folder configured, the sync folder holds at most one
\* sync artifact, under the one fixed name without a timestamp, after any
\* number of backup rounds, and after each round whose sync copy succeeded
\* its bytes are the canonical artifact of that round's flush: the copy of
\* the round before is overwritten, not kept beside it.
C11_SyncSingleCopy ==
    [][rounds'.n = rounds.n + 1 =>
        /\ DOMAIN sync_dir' \subseteq {VAULT_SYNC_NAME}
        /\ (last'.ok /\ IsSet(settings.sync_folder) /\ last'.fault \notin SyncFaults) =>
               /\ DOMAIN sync_dir' = {VAULT_SYNC_NAME}
               /\ sync_dir'[VAULT_SYNC_NAME].bytes = Unwrap(f_enc')]_vars

\* C11 witness: a round ran after the store wrote a row, found the sync
\* copy of an earlier round, and left one sync file holding the new
\* artifact
C11_Witness ==
    /\ last.op = "backup" /\ last.ok /\ last.arg = 1
    /\ IsSet(settings.sync_folder) /\ last.fault \notin SyncFaults
    /\ Len(Unwrap(f_tmp)) = 2
    /\ DOMAIN sync_dir = {VAULT_SYNC_NAME}
    /\ sync_dir[VAULT_SYNC_NAME].bytes = Unwrap(f_enc)
    /\ sync_dir[VAULT_SYNC_NAME].mtime = clock

\* the passphrase is empty or holds blanks only
IsBlank(passphrase) == \A i \in 1..Len(passphrase) : passphrase[i] = 32

\* the step is a fault-free call of a setup action with a passphrase, made
\* where nothing else stops it first
SetupWithPassphrase ==
    /\ last'.op \in {"create_key", "migrate_plain"}
    /\ last'.fault = "none"
    /\ last'.input # None
    /\ last'.op = "migrate_plain" => f_plain # None

\* C12: create_key and migrate_plain given a passphrase that is empty or
\* made of whitespace only fail with the empty-passphrase error, and no
\* key is stored and no file is created, modified or renamed.
C12_BlankPassphraseRejected ==
    [][(SetupWithPassphrase /\ IsBlank(Unwrap(last'.input))) =>
           /\ ~last'.ok
           /\ last'.msg = "Passphrase bos olamaz"
           /\ keychain' = keychain /\ f_plain' = f_plain /\ f_enc' = f_enc
           /\ f_tmp' = f_tmp /\ f_bak' = f_bak]_vars

\* the keychain entry is absent or does not decode to exactly 32 bytes
NoUsableSecret(kc) ==
    \/ kc = None
    \/ ~B64Decode(Unwrap(kc)).ok
    \/ Len(B64Decode(Unwrap(kc)).val) # KEY_LEN

\* C13: whenever the named secret is absent, or present but not decoding
\* to exactly 32 bytes, get_key returns None and not an error, and a
\* startup then follows the no-key rows of the state table instead of
\* failing: NeedsSetup(MigratePlain) with a legacy file,
\* NeedsSetup(FirstRun) with nothing, the artifact-without-key error with
\* an artifact only.
C13_UnusableSecretIsNoKey ==
    [][(Ran("run") /\ NoUsableSecret(keychain)) =>
           /\ get_db_key(Disk, NoFault).res = Ok(None)
           /\ f_plain # None =>
                  phase' = "running" /\ setup' = Some("MigratePlain")
           /\ (f_plain = None /\ f_enc = None) =>
                  phase' = "running" /\ setup' = Some("FirstRun")
           /\ (f_plain = None /\ f_enc # None) =>
                  /\ phase' = "off"
                  /\ last'.msg = "Encrypted DB exists but no key in keychain"]_vars

\* the state get_encryption_state would report, "off" when no process runs
VaultState ==
    IF phase = "off" THEN "off"
    ELSE IF setup = None THEN "Ready" ELSE Unwrap(setup)

\* C14: the vault state changes only at startup or through an explicit
\* setup or open action, and Ready is terminal for the session: once the
\* state is Ready it stays Ready, with the store handle held, for as long
\* as the process runs.
C14_ReadyTerminal ==
    [][/\ (phase = "off" /\ phase' = "running") => last'.op = "run"
       /\ (phase = "running" /\ phase' = "running" /\ VaultState' # VaultState) =>
              last'.op \in {"create_key", "migrate_plain", "open_db"}
       /\ (Ready /\ phase' = "running") => (ReadyNext /\ db' # None)]_vars

\* C14 witness: in a Ready session open_after_setup was invoked again,
\* init_db answered NeedSetup (the keychain gave no key, a legacy file is
\* present), and the state is still Ready with the handle held
C14_Witness ==
    /\ Ready /\ db # None
    /\ last.op = "open_db" /\ ~last.ok
    /\ last.msg = "NeedSetup(MigratePlain)"

\* the operations the claim names as the points of a flush
SetupAndShutdown == {"create_key", "migrate_plain", "close"}

C16_CreateKeyThenOpen ==
    [][/\ (last'.op = "create_key" /\ last'.ok /\ setup = Some("FirstRun")) =>
              /\ HasKey(keychain')
              /\ Decrypts(keychain', f_enc')
       /\ (last.op = "create_key" /\ last.ok /\ setup = Some("FirstRun")
              /\ Ran("open_db")) =>
              /\ last'.ok
              /\ ReadyNext /\ db' # None /\ paths' # None
              /\ Decrypts(keychain', f_enc')
              /\ f_tmp' = Some(PlainOf(keychain', f_enc'))]_vars

\* C16 witness: on a first run (no legacy file was ever there) a key was
\* created, open_after_setup succeeded, and the state is Ready on the
\* decrypted first artifact
C16_Witness ==
    /\ last.op = "open_db" /\ last.ok
    /\ Ready /\ db # None /\ paths # None
    /\ f_plain = None /\ f_bak = None
    /\ Decrypts(keychain, f_enc)
    /\ f_tmp = Some(SchemaBytes)
    /\ PlainOf(keychain, f_enc) = SchemaBytes

SameKey == Unwrap(last.input) = KeyBytes(keychain)
TooShort == Len(Unwrap(f_enc)) < NONCE_LEN
DamagedBody ==
    /\ Len(Unwrap(f_enc)) >= NONCE_LEN
    /\ Prefix(Unwrap(f_enc), NONCE_LEN) = Prefix(Pristine, NONCE_LEN)
    /\ Unwrap(f_enc) # Pristine

\* C18: for every key and every byte string m of the input set, the empty
\* one included, decrypt(key, encrypt(key, m)) returns m.
C18_RoundTrip ==
    (last.op = "decrypt" /\ SameKey /\ f_enc = Some(Pristine)) =>
        (last.ok /\ f_tmp = f_plain)

\* C18 witness: the empty byte string went through encrypt and decrypt
\* under one key and came back
C18_Witness ==
    /\ last.op = "decrypt" /\ last.ok /\ SameKey
    /\ f_plain = Some(<< >>)
    /\ f_tmp = Some(<< >>)
    /\ Len(Unwrap(f_enc)) = NONCE_LEN + TAG_LEN

\* C19: decrypt returns a failure value, with no plaintext and without a
\* panic, for every artifact shorter than 12 bytes, for every artifact
\* that differs from an encrypt output in its ciphertext or tag region,
\* and for every artifact produced under a different key.
C19_DecryptRejects ==
    (last.op = "decrypt" /\ (TooShort \/ DamagedBody \/ ~SameKey)) =>
        /\ ~last.ok
        /\ last.msg # Panic.err
        /\ f_tmp = None

\* C19 witness: an artifact cut below the nonce length was refused under
\* the right key
C19_Witness ==
    /\ last.op = "decrypt" /\ ~last.ok /\ SameKey
    /\ TooShort /\ Unwrap(f_enc) # << >>
    /\ f_tmp = None

\* C20: decrypt reports one single generic failure: whatever made it fail
\* (a corrupted, tampered or truncated artifact), the result is the one a
\* wrong key gives on the intact artifact, so that a caller cannot tell
\* the causes apart.
C20_SingleFailure ==
    (last.op = "decrypt" /\ ~last.ok) =>
        \A key \in CipherKeys \ {KeyBytes(keychain)} :
            /\ ~decrypt_file(key, Pristine).ok
            /\ last.msg = decrypt_file(key, Pristine).err

\* C21: when the artifact does not decrypt under the stored key, startup
\* and open_after_setup fail with the decrypt error and write nothing: the
\* working copy, the artifact, the stored key and the legacy files are as
\* before, the operation is the one attempt, and the state does not become
\* Ready (a failed startup leaves no process, a failed open_after_setup
\* leaves the handle, the paths and the reported state as they were).
C21_DecryptFailureIsClean ==
    [][(/\ last'.op \in {"run", "open_db"} /\ last'.fault = "none"
        /\ HasKey(keychain) /\ f_enc # None /\ ~Decrypts(keychain, f_enc)) =>
           /\ ~last'.ok
           /\ last'.msg = decrypt_file(KeyBytes(keychain), Unwrap(f_enc)).err
           /\ UNCHANGED diskVars
           /\ db' = db /\ paths' = paths /\ setup' = setup
           /\ last'.op = "run" => phase' = "off"
           /\ last'.op = "open_db" => phase' = phase]_vars

\* C21 witness: in a session waiting for setup, open_after_setup found a
\* stored key the artifact does not decrypt under, failed, and the state
\* is still NeedsSetup with no handle and no working copy written
C21_Witness ==
    /\ last.op = "open_db" /\ ~last.ok /\ last.msg = "aead::Error"
    /\ HasKey(keychain) /\ f_enc # None /\ ~Decrypts(keychain, f_enc)
    /\ phase = "running" /\ setup # None /\ db = None /\ paths = None
    /\ f_tmp = None

\* C22: a startup that finds a stored key and no artifact, and meets no
\* I/O fault, ends Ready with a working copy and a published artifact that
\* hold the initialised schema and nothing else, whatever the working-copy
\* path and the legacy path held before.
C22_FreshVaultIsEmpty ==
    [][(/\ last'.op = "run" /\ last'.fault = "none"
        /\ HasKey(keychain) /\ f_enc = None) =>
           /\ ReadyNext /\ db' # None /\ paths' # None
           /\ f_tmp' = Some(SchemaBytes)
           /\ Decrypts(keychain', f_enc')
           /\ PlainOf(keychain', f_enc') = SchemaBytes]_vars

\* C23: while the state is Ready the working copy changes only by a commit
\* of the store: no other operation of the session, open_after_setup
\* invoked again included, overwrites it, so no row written in the session
\* is lost before a flush.
C23_WorkingCopyOwnedByStore ==
    [][(Ready /\ f_tmp' # f_tmp) => last'.op = "store_write"]_vars

C25_KeyMatchesArtifact ==
    (HasKey(keychain) /\ f_enc # None) => Decrypts(keychain, f_enc)

\* C26: a migrate_plain that fails (or dies: the disk is the same) leaves
\* the legacy bytes at the legacy path or at the backup path, and a startup
\* on the disk it leaves reports NeedsSetup(MigratePlain) or is Ready on a
\* working copy holding the legacy data; it is never Ready on a new empty
\* vault beside the unmigrated legacy file.
C26_FailedMigrationKeepsLegacy ==
    [][(last'.op = "migrate_plain" /\ ~last'.ok /\ f_plain # None) =>
           /\ f_plain' = f_plain \/ f_bak' = f_plain
           /\ \A nonce \in Nonces :
                  LET o == init_db(Disk', nonce, NoFault) IN
                  \/ ~o.res.ok /\ o.res.err = "NeedSetup(MigratePlain)"
                  \/ o.res.ok /\ o.d.tmp = f_plain]_vars

\* C27: a flush of the shutdown hook that fails before its write of the
\* artifact (at the checkpoint, at key retrieval, with no key in the
\* keychain, at the read of the working copy, at encryption) leaves the
\* artifact, and every other file and the keychain, as they were; the hook
\* drops the error, runs no second flush, and the window closes.
C27_FailedFlushKeepsArtifact ==
    [][(last'.op = "close" /\ ~last'.ok /\ last'.fault # "write_enc") =>
           /\ f_enc' = f_enc
           /\ UNCHANGED diskVars
           /\ phase' = "off"]_vars

\* C27 witness: the hook's flush found no key in the keychain, the session
\* ended, and the artifact is still the complete one of the last flush,
\* behind the working copy by the rows written since
C27_Witness ==
    /\ last.op = "close" /\ ~last.ok /\ last.msg = "No key in keychain"
    /\ phase = "off"
    /\ Decrypts(keychain, f_enc)
    /\ f_tmp # None /\ Len(Unwrap(f_tmp)) > Len(PlainOf(keychain, f_enc))

\* C28: whenever the process runs and no handler is in progress, the
\* reported state is Ready exactly when DbState holds a connection and
\* exactly when EncryptedPathsState holds the path pair; and a shutdown
\* hook that runs in a NeedsSetup state enters no flush and changes no file
\* and no keychain entry.
C28_StateMatchesHandles ==
    [][/\ (phase' = "running" /\ \A t \in Threads : tasks'[t] = Idle) =>
              /\ (setup' = None) <=> (db' # None)
              /\ (setup' = None) <=> (paths' # None)
       /\ (setup # None /\ \E t \in Threads : tasks[t].op = "close") =>
              /\ UNCHANGED diskVars
              /\ \A t \in Threads : tasks'[t].pc # "flush"]_vars

\* C28 witness: in a session waiting for migration the hook took both
\* locks, found no connection and no paths, flushed nothing, and the
\* legacy file is where it was
C28_Witness ==
    /\ At("main", "close", "unlock")
    /\ setup = Some("MigratePlain") /\ db = None /\ paths = None
    /\ last.op = "close" /\ last.msg = "no flush"
    /\ f_plain # None /\ f_enc = None /\ f_tmp = None

\* C29: open_after_setup invoked while the keychain holds no key fails,
\* whatever files exist, and leaves the reported state, the connection,
\* the paths, the keychain and the four vault files as they were.
C29_OpenWithoutKeyFails ==
    [][(last'.op = "open_db" /\ ~HasKey(keychain)) =>
           /\ ~last'.ok
           /\ UNCHANGED << phase, db, paths, setup >>
           /\ UNCHANGED diskVars]_vars

\* C29 witness: in a first-run session with an empty data directory
\* open_after_setup was invoked before any setup action; it failed with
\* the setup reason and nothing exists that did not exist before
C29_Witness ==
    /\ last.op = "open_db" /\ ~last.ok /\ last.msg = "NeedSetup(FirstRun)"
    /\ last.fault = "none"
    /\ phase = "running" /\ setup = Some("FirstRun") /\ db = None /\ paths = None
    /\ keychain = None /\ f_plain = None /\ f_enc = None /\ f_tmp = None

\* C30: the handlers never wait for each other in a cycle.  The hook takes
\* the DbState lock and then the EncryptedPathsState lock and never the
\* EncryptionSetupState lock; every other handler holds at most one of the
\* three locks at a time; a handler that has returned holds none; and every
\* lock that is held is released again (or the process ends).
C30_NoDeadlock ==
    /\ [](\A t \in Threads :
             /\ tasks[t].op # "close" =>
                    Cardinality({m \in Mutexes : locks[m] = t}) <= 1
             /\ tasks[t].op = "close" =>
                    /\ locks["paths"] = t => locks["db"] = t
                    /\ locks["setup"] # t
             /\ tasks[t] = Idle => \A m \in Mutexes : locks[m] # t)
    /\ \A m \in Mutexes : (locks[m] # "free") ~> (locks[m] = "free")

\* C30 witness: in a Ready session in which the state was just reported,
\* the hook holds the handle lock and the paths lock and is about to
\* flush; the setup lock is free
C30_Witness ==
    /\ At("main", "close", "flush")
    /\ locks["db"] = "main" /\ locks["paths"] = "main" /\ locks["setup"] = "free"
    /\ last.op = "get_state" /\ last.msg = "Ready"
    /\ db # None /\ paths # None

====
